---- MODULE Spec2Model ----
(***************************************************************************)
(* Receipt API (src/app/main.py): the three database-backed handlers       *)
(* health_check, upload_receipt and get_receipt, run as concurrent asyncio *)
(* tasks over one connection pool and one PostgreSQL store.                *)
(*                                                                         *)
(* A handler runs without interruption between two awaits, so every action *)
(* below is one such segment: from the start of the handler, or from the   *)
(* completion of an await, to the next await or to the return.  The awaits *)
(* are db_pool.acquire() and each query; each may complete or raise.       *)
(* Every statement is sent on a connection with no enclosing transaction,  *)
(* so each INSERT is committed by itself when it completes.  Leaving the   *)
(* `async with` block returns the connection to the pool.                  *)
(***************************************************************************)
EXTENDS Integers, Sequences, FiniteSets

\* ---------------------------------------------------------------- bounds
MaxTasks == 3
MaxClock == 2
TicksPerSecond == 2
MaxReasonLen == 51

\* ------------------------------------------------------------- constants
max_size == 10
ReasonCut == 50
SecondsPerDay == 86400
HTTP_OK == 200
HTTP_BAD_REQUEST == 400
HTTP_NOT_FOUND == 404

Tasks == 1..MaxTasks

VARIABLES db_pool, now, db_hung, receipts, receipt_items, tasks

vars == <<db_pool, now, db_hung, receipts, receipt_items, tasks>>

\* ------------------------------------------------------------- strings
ImagePrefix == <<"i", "m", "a", "g", "e", "/">>

ImageTypes == { <<"i", "m", "a", "g", "e", "/", "p", "n", "g">> }

OtherTypes == { <<"t", "e", "x", "t", "/", "p", "l", "a", "i", "n">>,
                <<"i", "m", "a", "g", "e">> }

ContentTypes == ImageTypes \cup OtherTypes

Min(a, b) == IF a <= b THEN a ELSE b

\* str.startswith(prefix)
StartsWithShort(s, p) ==
    /\ Len(s) >= Len(p) - 1
    /\ \A i \in 1..(Len(p) - 1) : s[i] = p[i]

StartsWith(s, p) ==
    /\ Len(s) >= Len(p)
    /\ \A i \in 1..Len(p) : s[i] = p[i]

\* s[:n]
Untruncated(s, n) == s

Truncate(s, n) == SubSeq(s, 1, Min(Len(s), n))

\* str(e) of the exception a database await raises: any text, of any length
ReasonOfLen(n) == [i \in 1..n |-> "x"]

ReasonLens == {0, MaxReasonLen}

Reasons == { ReasonOfLen(n) : n \in ReasonLens }

\* ----------------------------------------------------------------- clock
\* datetime.now() has sub-second resolution; strftime("%Y%m%d-%H%M%S") keeps
\* whole seconds only.
SecondOf(tick) == tick \div TicksPerSecond

FormatId(tick) == <<"RCP-", SecondOf(tick)>>

DateOf(tick) == SecondOf(tick) \div SecondsPerDay

UnknownId == <<"RCP-", 99999>>

RequestIds == {FormatId(0), UnknownId}

\* ------------------------------------------------------ handler literals
MERCHANT == "Starbucks Gangnam"
DUMMY_MERCHANT == "Starbucks Gangnam (dummy)"
TOTAL == 15000
PROCESSED == "processed"

MsgSaved == "analysed and saved"
MsgSaveFailed == "analysed but save failed (DB error)"
MsgDummyMode == "analysed (dummy mode - DB not connected)"

ITEMS == << [item_name |-> "americano", quantity |-> 2, price |-> 4500],
            [item_name |-> "sandwich", quantity |-> 1, price |-> 6000] >>

NoRow == [none |-> TRUE]
NoRes == [code |-> 0]

IdleTask == [kind |-> "none", pc |-> "idle", ct |-> <<>>, rid |-> UnknownId,
             date |-> 0, wrote |-> 0, row |-> NoRow, raised |-> "none",
             exc |-> <<>>, after |-> FALSE, res |-> NoRes]

\* ------------------------------------------------------------------ pool
\* connections handed out by db_pool.acquire() and not yet given back
Holding(t) == tasks[t].pc \in {"insert_receipt", "insert_item", "fetchrow",
                               "fetch", "ping"}

InUse == Cardinality({ t \in Tasks : Holding(t) })

\* `if db_pool:`
PoolAlways(p) == TRUE

PoolConfigured(p) == p

\* requests are numbered in the order they arrive
CanStart(t) ==
    /\ tasks[t].pc = "idle"
    /\ \A u \in Tasks : u < t => tasks[u].pc # "idle"

Finish(t, extra, res) ==
    tasks' = [tasks EXCEPT
                ![t] = [extra EXCEPT !.pc = "done", !.row = NoRow, !.res = res]]

\* ----------------------------------------------------------------- store
\* receipts.receipt_id is the identity of a receipt: a second row with the
\* same identifier is rejected by the store
UniqueViolation(rid) == \E r \in receipts : r.receipt_id = rid

ReceiptRow(rid, date) ==
    [receipt_id |-> rid, merchant_name |-> MERCHANT, total_amount |-> TOTAL,
     receipt_date |-> date, image_url |-> <<"s3://receipts/", rid, ".jpg">>,
     status |-> PROCESSED]

ItemRowFirstId(rid, item) ==
    [receipt_id |-> FormatId(0), item_name |-> item.item_name,
     quantity |-> item.quantity, price |-> item.price]

ItemRow(rid, item) ==
    [receipt_id |-> rid, item_name |-> item.item_name,
     quantity |-> item.quantity, price |-> item.price]

\* SELECT ... FROM receipts WHERE receipt_id = $1   (fetchrow: one row or None)
SelectReceipt(rid) ==
    IF \E r \in receipts : r.receipt_id = rid
    THEN CHOOSE r \in receipts : r.receipt_id = rid
    ELSE NoRow

RECURSIVE FilterItems(_, _)
FilterItems(rows, rid) ==
    IF rows = <<>> THEN <<>>
    ELSE (IF Head(rows).receipt_id = rid THEN <<Head(rows)>> ELSE <<>>)
         \o FilterItems(Tail(rows), rid)

\* SELECT item_name, quantity, price FROM receipt_items WHERE receipt_id = $1
SelectAllItems(rid) == receipt_items

SelectItems(rid) == FilterItems(receipt_items, rid)

\* ------------------------------------------------------------- responses
ReceiptResponse(rid, date, message) ==
    [code |-> HTTP_OK, receipt_id |-> rid, merchant_name |-> MERCHANT,
     total_amount |-> TOTAL, date |-> date, status |-> PROCESSED,
     message |-> message]

BadRequest == [code |-> HTTP_BAD_REQUEST, detail |-> "only image files can be uploaded"]

NotFound == [code |-> HTTP_NOT_FOUND, detail |-> "receipt not found"]

ItemJson(it) == [name |-> it.item_name, quantity |-> it.quantity, price |-> it.price]

StoredReceipt(row, items) ==
    [code |-> HTTP_OK, receipt_id |-> row.receipt_id,
     merchant_name |-> row.merchant_name, total_amount |-> row.total_amount,
     date |-> row.receipt_date, status |-> row.status,
     items |-> [i \in 1..Len(items) |-> ItemJson(items[i])]]

DummyReceipt(rid, tick) ==
    [code |-> HTTP_OK, receipt_id |-> rid, merchant_name |-> DUMMY_MERCHANT,
     total_amount |-> TOTAL, date |-> DateOf(tick), status |-> PROCESSED,
     items |-> << [name |-> "americano", quantity |-> 2, price |-> 4500],
                  [name |-> "sandwich", quantity |-> 1, price |-> 6000] >>]

Connected == <<"connected">>
NotConfigured == <<"not configured">>

ErrorStatus(reason) == <<"error: ">> \o Truncate(reason, ReasonCut)

HealthResponse(db_status, tick) ==
    [code |-> HTTP_OK,
     status |-> IF db_status = Connected THEN "healthy" ELSE "degraded",
     timestamp |-> tick, database |-> db_status, version |-> "1.0.0"]

\* ------------------------------------------------------------------ Init
\* lifespan: create_pool either succeeds or raises, and db_pool stays None
Init ==
    /\ db_pool \in BOOLEAN
    /\ now = 0
    /\ db_hung = FALSE
    /\ receipts = {}
    /\ receipt_items = <<>>
    /\ tasks = [t \in Tasks |-> IdleTask]

\* ------------------------------------------------------------ environment
Tick ==
    /\ now < MaxClock
    /\ now' = now + 1
    /\ UNCHANGED <<db_pool, db_hung, receipts, receipt_items, tasks>>

\* the database stops answering: no query sent from now on ever completes
DbHang ==
    /\ db_pool
    /\ ~db_hung
    /\ db_hung' = TRUE
    /\ UNCHANGED <<db_pool, now, receipts, receipt_items, tasks>>

\* ---------------------------------------------------------- health_check
HealthStart(t) ==
    /\ CanStart(t)
    /\ LET me == [IdleTask EXCEPT !.kind = "health"]
       IN  IF PoolConfigured(db_pool)
           THEN tasks' = [tasks EXCEPT ![t] = [me EXCEPT !.pc = "acquire"]]
           ELSE Finish(t, me, HealthResponse(NotConfigured, now))
    /\ UNCHANGED <<db_pool, now, db_hung, receipts, receipt_items>>

HealthAcquire(t) ==
    /\ tasks[t].kind = "health"
    /\ tasks[t].pc = "acquire"
    /\ \/ /\ InUse < max_size
          /\ tasks' = [tasks EXCEPT ![t].pc = "ping"]
       \/ \E e \in Reasons :
             Finish(t, [tasks[t] EXCEPT !.raised = "StorageError", !.exc = e],
                    HealthResponse(ErrorStatus(e), now))
    /\ UNCHANGED <<db_pool, now, db_hung, receipts, receipt_items>>

HealthPing(t) ==
    /\ tasks[t].kind = "health"
    /\ tasks[t].pc = "ping"
    /\ ~db_hung
    /\ \/ Finish(t, tasks[t], HealthResponse(Connected, now))
       \/ \E e \in Reasons :
             Finish(t, [tasks[t] EXCEPT !.raised = "StorageError", !.exc = e],
                    HealthResponse(ErrorStatus(e), now))
    /\ UNCHANGED <<db_pool, now, db_hung, receipts, receipt_items>>

\* -------------------------------------------------------- upload_receipt
\* `for item_name, quantity, price in items:` is over once k items are in
LoopDoneEarly(k) == k >= Len(ITEMS) - 1

LoopDone(k) == k >= Len(ITEMS)

UploadStart(t) ==
    /\ CanStart(t)
    /\ \E ct \in ContentTypes :
          LET me == [IdleTask EXCEPT !.kind = "upload", !.ct = ct,
                                         !.rid = FormatId(now), !.date = DateOf(now)]
          IN  IF ~StartsWith(ct, ImagePrefix)
              THEN Finish(t, [IdleTask EXCEPT !.kind = "upload", !.ct = ct], BadRequest)
              ELSE IF PoolConfigured(db_pool)
                   THEN tasks' = [tasks EXCEPT ![t] = [me EXCEPT !.pc = "acquire"]]
                   ELSE Finish(t, me, ReceiptResponse(me.rid, me.date, MsgDummyMode))
    /\ UNCHANGED <<db_pool, now, db_hung, receipts, receipt_items>>

UploadFailed(t) ==
    Finish(t, [tasks[t] EXCEPT !.raised = "StorageError"],
           ReceiptResponse(tasks[t].rid, tasks[t].date, MsgSaveFailed))

UploadAcquire(t) ==
    /\ tasks[t].kind = "upload"
    /\ tasks[t].pc = "acquire"
    /\ \/ /\ InUse < max_size
          /\ tasks' = [tasks EXCEPT ![t].pc = "insert_receipt"]
       \/ UploadFailed(t)
    /\ UNCHANGED <<db_pool, now, db_hung, receipts, receipt_items>>

UploadInsertReceipt(t) ==
    /\ tasks[t].kind = "upload"
    /\ tasks[t].pc = "insert_receipt"
    /\ ~db_hung
    /\ \/ /\ ~UniqueViolation(tasks[t].rid)
          /\ receipts' = receipts \cup {ReceiptRow(tasks[t].rid, tasks[t].date)}
          /\ tasks' = [tasks EXCEPT ![t].pc = "insert_item", ![t].wrote = 1]
       \/ /\ UploadFailed(t)
          /\ UNCHANGED receipts
    /\ UNCHANGED <<db_pool, now, db_hung, receipt_items>>

UploadInsertItem(t) ==
    /\ tasks[t].kind = "upload"
    /\ tasks[t].pc = "insert_item"
    /\ ~db_hung
    /\ \/ /\ receipt_items' =
                Append(receipt_items, ItemRow(tasks[t].rid, ITEMS[tasks[t].wrote]))
          /\ LET me == [tasks[t] EXCEPT !.wrote = @ + 1]
             IN  IF LoopDone(me.wrote - 1)
                 THEN Finish(t, me, ReceiptResponse(me.rid, me.date, MsgSaved))
                 ELSE tasks' = [tasks EXCEPT ![t] = me]
       \/ /\ UploadFailed(t)
          /\ UNCHANGED receipt_items
    /\ UNCHANGED <<db_pool, now, db_hung, receipts>>

\* ----------------------------------------------------------- get_receipt
\* `except HTTPException: raise` / `except Exception as e:` (fall through)
SwallowAll(e) == "fallback"

ExceptClause(e) == IF e = "HTTPException" THEN "raise" ELSE "fallback"

\* a save of this identifier had already been acknowledged when the request came
SavedBefore(rid) ==
    \E u \in Tasks :
        /\ tasks[u].kind = "upload"
        /\ tasks[u].pc = "done"
        /\ tasks[u].res.code = HTTP_OK
        /\ tasks[u].res.message = MsgSaved
        /\ tasks[u].res.receipt_id = rid

GetStart(t) ==
    /\ CanStart(t)
    /\ \E rid \in RequestIds :
          LET me == [IdleTask EXCEPT !.kind = "get", !.rid = rid,
                                     !.after = SavedBefore(rid)]
          IN  IF PoolConfigured(db_pool)
              THEN tasks' = [tasks EXCEPT ![t] = [me EXCEPT !.pc = "acquire"]]
              ELSE Finish(t, me, DummyReceipt(rid, now))
    /\ UNCHANGED <<db_pool, now, db_hung, receipts, receipt_items>>

GetFallback(t, e) ==
    Finish(t, [tasks[t] EXCEPT !.raised = e], DummyReceipt(tasks[t].rid, now))

GetAcquire(t) ==
    /\ tasks[t].kind = "get"
    /\ tasks[t].pc = "acquire"
    /\ \/ /\ InUse < max_size
          /\ tasks' = [tasks EXCEPT ![t].pc = "fetchrow"]
       \/ GetFallback(t, "StorageError")
    /\ UNCHANGED <<db_pool, now, db_hung, receipts, receipt_items>>

GetFetchRow(t) ==
    /\ tasks[t].kind = "get"
    /\ tasks[t].pc = "fetchrow"
    /\ ~db_hung
    /\ \/ LET receipt == SelectReceipt(tasks[t].rid)
          IN  IF receipt = NoRow
              THEN IF ExceptClause("HTTPException") = "raise"
                   THEN Finish(t, [tasks[t] EXCEPT !.raised = "HTTPException"], NotFound)
                   ELSE GetFallback(t, "HTTPException")
              ELSE tasks' = [tasks EXCEPT ![t].row = receipt, ![t].pc = "fetch"]
       \/ GetFallback(t, "StorageError")
    /\ UNCHANGED <<db_pool, now, db_hung, receipts, receipt_items>>

GetFetch(t) ==
    /\ tasks[t].kind = "get"
    /\ tasks[t].pc = "fetch"
    /\ ~db_hung
    /\ \/ Finish(t, tasks[t], StoredReceipt(tasks[t].row, SelectItems(tasks[t].rid)))
       \/ GetFallback(t, "StorageError")
    /\ UNCHANGED <<db_pool, now, db_hung, receipts, receipt_items>>

\* ------------------------------------------------------- specifications
\* upload_receipt and get_receipt over the store.  health_check reads and
\* writes nothing these two handlers see (the pool's ceiling of max_size is
\* above every number of tasks considered), so it runs in HealthSpec.
Next ==
    \/ Tick
    \/ \E t \in Tasks : UploadStart(t)
    \/ \E t \in Tasks : UploadAcquire(t)
    \/ \E t \in Tasks : UploadInsertReceipt(t)
    \/ \E t \in Tasks : UploadInsertItem(t)
    \/ \E t \in Tasks : GetStart(t)
    \/ \E t \in Tasks : GetAcquire(t)
    \/ \E t \in Tasks : GetFetchRow(t)
    \/ \E t \in Tasks : GetFetch(t)

Spec == Init /\ [][Next]_vars

HealthNext ==
    \/ Tick
    \/ DbHang
    \/ \E t \in Tasks : HealthStart(t)
    \/ \E t \in Tasks : HealthAcquire(t)
    \/ \E t \in Tasks : HealthPing(t)

HealthSpec == Init /\ [][HealthNext]_vars

\* The event loop runs every handler segment that is ready, and the pool and
\* a database that is answering complete every await: all of the program's
\* steps are fair.  Nothing makes a database that has stopped answering
\* answer again.
HealthSteps ==
    \E t \in Tasks : HealthStart(t) \/ HealthAcquire(t) \/ HealthPing(t)

HealthFairSpec == HealthSpec /\ WF_vars(HealthSteps)

\* ================================================================ claims
IsDone(t, kind) == tasks[t].kind = kind /\ tasks[t].pc = "done"

StoreIds == { r.receipt_id : r \in receipts }

ItemsOf(rid) == [i \in 1..Len(ITEMS) |-> ItemRow(rid, ITEMS[i])]

ItemsJson == [i \in 1..Len(ITEMS) |-> ItemJson(ITEMS[i])]

\* the provenance of an upload's result, carried by its message
Tag(res) == IF res.message = MsgSaved THEN "persisted" ELSE "synthetic"

Persisted(t) ==
    /\ IsDone(t, "upload")
    /\ tasks[t].res.code = HTTP_OK
    /\ Tag(tasks[t].res) = "persisted"

\* C1: a receipt row is in the store only together with all of its item rows
\* (the receipt insert and the item inserts commit together or not at all).
C1_AllOrNothing ==
    \A r \in receipts :
        FilterItems(receipt_items, r.receipt_id) = ItemsOf(r.receipt_id)

\* C2: the identifiers returned by any two intakes of a valid image differ.
C2_DistinctIds ==
    \A t, u \in Tasks :
        (/\ t # u
         /\ IsDone(t, "upload") /\ tasks[t].ct \in ImageTypes
         /\ IsDone(u, "upload") /\ tasks[u].ct \in ImageTypes)
        => tasks[t].res.receipt_id # tasks[u].res.receipt_id

C4_AlwaysAResult ==
    \A t \in Tasks :
        (IsDone(t, "upload") /\ tasks[t].ct \in ImageTypes)
        => /\ tasks[t].res.code = HTTP_OK
           /\ tasks[t].res.receipt_id = tasks[t].rid
           /\ tasks[t].res.message \in {MsgSaved, MsgSaveFailed, MsgDummyMode}
           /\ Tag(tasks[t].res) = "persisted" <=> tasks[t].wrote = 1 + Len(ITEMS)
           /\ Tag(tasks[t].res) = "persisted"
                 => /\ tasks[t].rid \in StoreIds
                    /\ FilterItems(receipt_items, tasks[t].rid) = ItemsOf(tasks[t].rid)
           /\ (~db_pool \/ tasks[t].raised = "StorageError")
                 => Tag(tasks[t].res) = "synthetic"

C4_Witness ==
    \E t, u \in Tasks :
        /\ Persisted(t)
        /\ IsDone(u, "upload") /\ tasks[u].ct \in ImageTypes
        /\ tasks[u].raised = "StorageError" /\ tasks[u].wrote = 2
        /\ Tag(tasks[u].res) = "synthetic"

\* C5: once the save of a receipt has been acknowledged, a retrieve of its
\* identifier that starts later and reads the store without error returns the
\* saved receipt's fields and exactly its items, whatever other intakes did.
C5_RoundTrip ==
    \A g, u \in Tasks :
        (/\ IsDone(g, "get") /\ tasks[g].after
         /\ tasks[g].raised # "StorageError"
         /\ Persisted(u)
         /\ tasks[u].res.receipt_id = tasks[g].rid)
        => /\ tasks[g].res.code = HTTP_OK
           /\ tasks[g].res.receipt_id = tasks[u].res.receipt_id
           /\ tasks[g].res.merchant_name = tasks[u].res.merchant_name
           /\ tasks[g].res.total_amount = tasks[u].res.total_amount
           /\ tasks[g].res.date = tasks[u].res.date
           /\ tasks[g].res.status = tasks[u].res.status
           /\ tasks[g].res.items = ItemsJson

C5_Witness ==
    \E g, u, v \in Tasks :
        /\ u # v
        /\ Persisted(u)
        /\ IsDone(v, "upload") /\ tasks[v].ct \in ImageTypes
        /\ tasks[v].res.receipt_id = tasks[u].res.receipt_id
        /\ IsDone(g, "get") /\ tasks[g].after
        /\ tasks[g].rid = tasks[u].res.receipt_id
        /\ tasks[g].raised = "none"
        /\ tasks[g].res.items = ItemsJson

\* C6: with no pool, a retrieve of any identifier, issued or not, returns the
\* placeholder receipt at once; it never waits, raises or answers 404.
C6_DegradedRetrieve ==
    \A t \in Tasks :
        (tasks[t].kind = "get" /\ ~db_pool)
        => /\ tasks[t].pc = "done"
           /\ tasks[t].res.code = HTTP_OK
           /\ tasks[t].res.receipt_id = tasks[t].rid
           /\ tasks[t].res.merchant_name = DUMMY_MERCHANT

C6_Witness ==
    \E t \in Tasks :
        /\ IsDone(t, "get")
        /\ ~db_pool
        /\ tasks[t].rid = UnknownId
        /\ tasks[t].res.merchant_name = DUMMY_MERCHANT

\* C7: with a pool, a retrieve answers 404 only at a receipt read that
\* completed and found no row of that identifier, and then always; a storage
\* error at any step gives the placeholder receipt, never a failure.
C7_NotFoundOnlyWhenAbsent ==
    [][\A t \in Tasks :
          (/\ db_pool
           /\ tasks[t].kind = "get"
           /\ tasks[t].pc # "done"
           /\ tasks'[t].pc = "done")
          => /\ tasks'[t].res.code \in {HTTP_OK, HTTP_NOT_FOUND}
             /\ tasks'[t].res.code = HTTP_NOT_FOUND
                   => /\ tasks[t].pc = "fetchrow"
                      /\ tasks'[t].raised = "HTTPException"
                      /\ tasks[t].rid \notin StoreIds
             /\ tasks'[t].raised = "HTTPException"
                   => tasks'[t].res.code = HTTP_NOT_FOUND
             /\ (tasks[t].pc = "fetchrow" /\ tasks[t].rid \in StoreIds)
                   => tasks'[t].res.code # HTTP_NOT_FOUND
             /\ tasks'[t].raised = "StorageError"
                   => /\ tasks'[t].res.code = HTTP_OK
                      /\ tasks'[t].res.merchant_name = DUMMY_MERCHANT]_vars

C7_Witness ==
    \E g, h \in Tasks :
        /\ db_pool
        /\ IsDone(g, "get") /\ tasks[g].res.code = HTTP_NOT_FOUND
        /\ IsDone(h, "get") /\ tasks[h].raised = "StorageError"
        /\ tasks[h].res.merchant_name = DUMMY_MERCHANT
        /\ tasks[h].rid \in StoreIds

\* C8: a health check always returns a report; its status is healthy exactly
\* when its database status is connected; no pool gives not configured, an
\* await that raises gives "error: " and at most ReasonCut characters of the
\* reason, a ping that completes gives connected.
C8_HealthReport ==
    \A t \in Tasks :
        IsDone(t, "health")
        => LET res == tasks[t].res
               e == tasks[t].exc
           IN  /\ res.code = HTTP_OK
               /\ res.status \in {"healthy", "degraded"}
               /\ res.status = "healthy" <=> res.database = Connected
               /\ ~db_pool => res.database = NotConfigured
               /\ (db_pool /\ tasks[t].raised = "none") => res.database = Connected
               /\ (db_pool /\ tasks[t].raised # "none")
                     => /\ res.database[1] = "error: "
                        /\ Len(res.database) = 1 + Min(Len(e), ReasonCut)
                        /\ \A i \in 2..Len(res.database) : res.database[i] = e[i - 1]

C8_Witness ==
    \E t, u \in Tasks :
        /\ IsDone(t, "health") /\ tasks[t].raised = "StorageError"
        /\ Len(tasks[t].exc) > ReasonCut
        /\ tasks[t].res.status = "degraded"
        /\ IsDone(u, "health") /\ tasks[u].res.status = "healthy"

\* C9: every health check that has started eventually returns.
C9_HealthReturns ==
    \A t \in Tasks : (tasks[t].kind = "health") ~> (tasks[t].pc = "done")

\* C10: every item row refers to a receipt row that is in the store, and no
\* step ever removes or changes a receipt row.
C10_ItemsHaveReceipt ==
    /\ [](\A i \in 1..Len(receipt_items) : receipt_items[i].receipt_id \in StoreIds)
    /\ [][receipts \subseteq receipts']_vars

C10_Witness ==
    /\ Cardinality(receipts) = 2
    /\ Len(receipt_items) = 3
    /\ \E t \in Tasks : IsDone(t, "get") /\ tasks[t].raised = "none"

====
